---------------------------- MODULE Spec2Model ----------------------------
(***************************************************************************)
(* Model of the syntactic front end of holo: the TokenStream               *)
(* (src/src/compile/stream/token-stream.ts) and the recursive-descent /    *)
(* Pratt parser (src/src/syntax/parse.ts).                                 *)
(*                                                                         *)
(* Three specifications share the variables:                               *)
(*   Spec       any sequence of TokenStream operations on a token list     *)
(*   ParseSpec  parse() run on a token list, one step per loop position    *)
(*   ExprSpec   parseExpr() applied to a token list                        *)
(***************************************************************************)
EXTENDS Integers, Sequences, FiniteSets

VARIABLES
    s,        \* the TokenStream object: [source, index, token]
    op,       \* the last TokenStream operation called, with its argument
    ret,      \* the token the last operation returned (getToken, lookahead)
    thrown,   \* the error the last call raised, NoErr when it raised none
    pc,       \* the position of parse() / parseExpr()
    decls,    \* parse(): the local array decls
    result    \* the value returned: a Unit (parse) or an Expression (parseExpr)

vars == <<s, op, ret, thrown, pc, decls, result>>

\* ------------------------------------------------------------------ bounds
MaxLen == 3        \* longest token list of Spec
MaxOffset == 4     \* largest lookahead offset of Spec
MaxProgLen == 3    \* longest enumerated token list of ParseSpec
MaxExprLen == 3    \* longest enumerated token list of ExprSpec

\* ------------------------------------------------------------------ tokens
\* A source location.
Loc(line, column) == [line |-> line, column |-> column]

\* JavaScript's undefined, as a token's missing text and as a missing node.
UndefinedValue == <<>>
Undefined == [kind |-> "undefined"]

\* TOKEN(kind, loc): a token without text.
TOKEN(kind, loc) == [kind |-> kind, value |-> UndefinedValue, loc |-> loc]

\* The end-of-stream token the stream synthesizes.
EOFToken == TOKEN("EOF", Loc(-1, -1))

\* A lexeme is <<kind, text>>; text is a sequence of characters.
Lex(kind) == <<kind, UndefinedValue>>
Id(name) == <<"Identifier", <<name>>>>
Num(digits) == <<"NumberLiteral", digits>>

\* The token list of a lexeme list: token i lies on line 1, column i.
Tokens(lexemes) ==
    [i \in 1..Len(lexemes) |->
        [kind |-> lexemes[i][1], value |-> lexemes[i][2], loc |-> Loc(1, i)]]

\* ------------------------------------------------------------------ errors
NoErr == [name |-> "none", msg |-> <<>>, hasLoc |-> FALSE, loc |-> Loc(0, 0)]

\* error(message, loc) of util/error.js: a syntax error that carries a location.
error(msg, loc) == [name |-> "SyntaxError", msg |-> msg, hasLoc |-> TRUE, loc |-> loc]

\* new Error(message): the built-in error, which carries no location.
Error(msg) == [name |-> "Error", msg |-> msg, hasLoc |-> FALSE, loc |-> Loc(0, 0)]

\* ------------------------------------------------------------- TokenStream
\* get eof()
eof(st) == st.index >= Len(st.source)

\* load(): refresh the cached current token (source is 0-based in the code).
load(st) ==
    IF eof(st)
    THEN [st EXCEPT !.token = TOKEN("EOF", Loc(-1, -1))]
    ELSE [st EXCEPT !.token = st.source[st.index + 1]]

\* new TokenStream(source)
TokenStream(source) == load([source |-> source, index |-> 0, token |-> EOFToken])

getToken(st) ==
    IF eof(st) THEN TOKEN("EOF", Loc(-1, -1)) ELSE st.token

getKind(st) == getToken(st).kind

nextNoGuard(st) == load([st EXCEPT !.index = @ + 1])

next(st) ==
    load(IF ~eof(st) THEN [st EXCEPT !.index = @ + 1] ELSE st)

lookaheadAbsolute(st, offset) ==
    IF st.index + offset < Len(st.source)
    THEN st.source[offset + 1]
    ELSE TOKEN("EOF", Loc(-1, -1))

lookahead(st, offset) ==
    IF st.index + offset < Len(st.source)
    THEN st.source[st.index + offset + 1]
    ELSE TOKEN("EOF", Loc(-1, -1))

\* A call's outcome: the stream after it, the value returned, the error raised.
Ret(st, val) == [s |-> st, val |-> val, err |-> NoErr]
Fail(st, err) == [s |-> st, val |-> Undefined, err |-> err]

\* Statement sequencing inside a function, as in nextWith's `this.expect(kind);
\* this.next();`: an error raised by the first statement r leaves the function
\* with the stream as it was at the throw, else the rest k runs on r's outcome.
Then(r, k(_)) == IF r.err # NoErr THEN Fail(r.s, r.err) ELSE k(r)

expect(st, kind) ==
    IF getKind(st) # kind
    THEN Fail(st, error(<<"unexpected token", getKind(st)>>, getToken(st).loc))
    ELSE Ret(st, Undefined)

nextWithAdvanceFirst(st, kind) ==
    Then(expect(next(st), kind), LAMBDA e : Ret(e.s, Undefined))

\* nextWith(kind): expect(kind), then next().
nextWith(st, kind) ==
    Then(expect(st, kind), LAMBDA e : Ret(next(e.s), Undefined))

\* --------------------------------------------------- Spec: stream operations
StreamKinds == {"Identifier", "NumberLiteral", "Plus", "EOF"}
StreamLexemes == {Id("a"), Num(<<"1">>), Lex("Plus")}

RECURSIVE SeqsUpTo(_, _)
SeqsUpTo(S, n) ==
    IF n = 0 THEN {<<>>}
    ELSE LET shorter == SeqsUpTo(S, n - 1)
         IN  shorter \cup {Append(q, x) : q \in shorter, x \in S}

NoOp == [name |-> "new", kind |-> "", offset |-> 0]
Call(name, kind, offset) == [name |-> name, kind |-> kind, offset |-> offset]

Idle ==
    /\ op = NoOp
    /\ ret = EOFToken
    /\ thrown = NoErr
    /\ decls = <<>>
    /\ result = Undefined

Init ==
    /\ \E lexemes \in SeqsUpTo(StreamLexemes, MaxLen) : s = TokenStream(Tokens(lexemes))
    /\ pc = "stream"
    /\ Idle

GetToken ==
    /\ s' = s
    /\ op' = Call("getToken", "", 0)
    /\ ret' = getToken(s)
    /\ thrown' = NoErr
    /\ UNCHANGED <<pc, decls, result>>

GetKind ==
    /\ s' = s
    /\ op' = Call("getKind", getKind(s), 0)
    /\ thrown' = NoErr
    /\ UNCHANGED <<ret, pc, decls, result>>

NextOp ==
    /\ s' = next(s)
    /\ op' = Call("next", "", 0)
    /\ thrown' = NoErr
    /\ UNCHANGED <<ret, pc, decls, result>>

Lookahead ==
    \E offset \in 0..MaxOffset :
        /\ s' = s
        /\ op' = Call("lookahead", "", offset)
        /\ ret' = lookahead(s, offset)
        /\ thrown' = NoErr
        /\ UNCHANGED <<pc, decls, result>>

Expect ==
    \E kind \in StreamKinds :
        /\ s' = s
        /\ op' = Call("expect", kind, 0)
        /\ thrown' = expect(s, kind).err
        /\ UNCHANGED <<ret, pc, decls, result>>

NextWith ==
    \E kind \in StreamKinds :
        /\ s' = nextWith(s, kind).s
        /\ op' = Call("nextWith", kind, 0)
        /\ thrown' = nextWith(s, kind).err
        /\ UNCHANGED <<ret, pc, decls, result>>

Next ==
    \/ GetToken
    \/ GetKind
    \/ NextOp
    \/ Lookahead
    \/ Expect
    \/ NextWith

Spec == Init /\ [][Next]_vars

\* ------------------------------------------------------------------- nodes
\* The node classes of node.js: each carries its fields and a location.
Unit(ds, loc) == [kind |-> "Unit", decls |-> ds, loc |-> loc]
FunctionDecl(name, params, body, loc) ==
    [kind |-> "FunctionDecl", name |-> name, params |-> params, body |-> body, loc |-> loc]
VariableDecl(name, body, loc) ==
    [kind |-> "VariableDecl", name |-> name, body |-> body, loc |-> loc]
Block(steps, loc) == [kind |-> "Block", steps |-> steps, loc |-> loc]
If(cond, thenBlock, elseBlock, loc) ==
    [kind |-> "If", cond |-> cond, thenBlock |-> thenBlock, elseBlock |-> elseBlock,
     loc |-> loc]
While(mode, cond, body, loc) ==
    [kind |-> "While", mode |-> mode, cond |-> cond, body |-> body, loc |-> loc]
Binary(mode, left, right, loc) ==
    [kind |-> "Binary", mode |-> mode, left |-> left, right |-> right, loc |-> loc]
Unary(mode, expr, loc) == [kind |-> "Unary", mode |-> mode, expr |-> expr, loc |-> loc]
NumberLiteral(value, loc) == [kind |-> "NumberLiteral", value |-> value, loc |-> loc]
Reference(name, loc) == [kind |-> "Reference", name |-> name, loc |-> loc]

\* Number(source) on decimal digits: the value of the digit string.
DigitValue(c) ==
    CASE c = "0" -> 0 [] c = "1" -> 1 [] c = "2" -> 2 [] c = "3" -> 3 [] c = "4" -> 4
      [] c = "5" -> 5 [] c = "6" -> 6 [] c = "7" -> 7 [] c = "8" -> 8 [] c = "9" -> 9

RECURSIVE Number(_)
Number(source) ==
    IF source = <<>> THEN 0
    ELSE 10 * Number(SubSeq(source, 1, Len(source) - 1)) + DigitValue(source[Len(source)])

\* ---------------------------------------------------------- operator table
prefixOp(token, bp) == [kind |-> "prefix", token |-> token, bp |-> bp]
infixOp(token, lbp, rbp) == [kind |-> "infix", token |-> token, lbp |-> lbp, rbp |-> rbp]
postfixOp(token, bp) == [kind |-> "postfix", token |-> token, bp |-> bp]

operators == <<
    postfixOp("OpenParen", 90),
    postfixOp("OpenBracket", 90),
    prefixOp("Not", 80),
    prefixOp("Plus", 80),
    prefixOp("Minus", 80),
    infixOp("Asterisk", 70, 71),
    infixOp("Slash", 70, 71),
    infixOp("Percent", 70, 71),
    infixOp("Plus", 60, 61),
    infixOp("Minus", 60, 61),
    infixOp("Lt", 50, 51),
    infixOp("Lte", 50, 51),
    infixOp("Gt", 50, 51),
    infixOp("Gte", 50, 51),
    infixOp("Eq2", 40, 41),
    infixOp("NotEq", 40, 41),
    infixOp("And2", 30, 31),
    infixOp("Or2", 20, 21) >>

\* operators.find(x => x.kind == kind && x.token == token): the first match,
\* or undefined.
find(kind, token) ==
    LET hits == {i \in DOMAIN operators :
                    operators[i].kind = kind /\ operators[i].token = token}
    IN  IF hits = {} THEN Undefined
        ELSE operators[CHOOSE i \in hits : \A j \in hits : i <= j]

\* The switch of parsePrefix: the UnaryMode of a prefix token.
UnaryModeOf(token) ==
    CASE token = "Not" -> "not"
      [] token = "Plus" -> "plus"
      [] token = "Minus" -> "minus"

\* The switch of parseInfix: the BinaryMode of an infix token.
BinaryModeOf(token) ==
    CASE token = "Asterisk" -> "mul"
      [] token = "Slash" -> "div"
      [] token = "Percent" -> "rem"
      [] token = "Plus" -> "add"
      [] token = "Minus" -> "sub"
      [] token = "Lt" -> "lt"
      [] token = "Lte" -> "lte"
      [] token = "Gt" -> "gt"
      [] token = "Gte" -> "gte"
      [] token = "Eq2" -> "eq"
      [] token = "NotEq" -> "neq"
      [] token = "And2" -> "and"
      [] token = "Or2" -> "or"

\* ------------------------------------------------------------------ grammar
RECURSIVE parseParamsLoop(_, _)
RECURSIVE parseBlockLoop(_, _)
RECURSIVE parsePratt(_, _)
RECURSIVE parsePrattLoop(_, _, _)
RECURSIVE parsePrefix(_, _)
RECURSIVE parseInfix(_, _, _)
RECURSIVE parseAtom(_)
RECURSIVE parseIf(_)

\* The while loop of parseParams, then the closing parenthesis.
parseParamsLoop(st, items) ==
    IF getKind(st) # "CloseParen"
    THEN Then(IF Len(items) > 0 THEN nextWith(st, "Comma") ELSE Ret(st, Undefined),
              LAMBDA c :
         Then(expect(c.s, "Identifier"), LAMBDA e :
         parseParamsLoop(next(e.s), Append(items, getToken(e.s).value))))
    ELSE Then(nextWith(st, "CloseParen"), LAMBDA c : Ret(c.s, items))

parseParams(st) ==
    Then(nextWith(st, "OpenParen"), LAMBDA o : parseParamsLoop(o.s, <<>>))

parseExpr(st) == parsePratt(st, 0)

parseCond(st) ==
    Then(nextWith(st, "OpenParen"), LAMBDA o :
    Then(parseExpr(o.s), LAMBDA expr :
    Then(nextWith(expr.s, "CloseParen"), LAMBDA c :
    Ret(c.s, expr.val))))

\* parseStep is not written yet: it raises Error('todo').
parseStep(st) == Fail(st, Error(<<"todo">>))

\* The while loop of parseBlock, then the closing brace.
parseBlockLoop(st, steps) ==
    IF getKind(st) # "CloseBrace"
    THEN Then(parseStep(st), LAMBDA step :
         parseBlockLoop(step.s, Append(steps, step.val)))
    ELSE Then(nextWith(st, "CloseBrace"), LAMBDA c : Ret(c.s, steps))

parseBlock(st) ==
    Then(nextWith(st, "OpenBrace"), LAMBDA o : parseBlockLoop(o.s, <<>>))

\* name is the text of the token expect() checked, read before next().
parseFunctionDecl(st) ==
    LET loc == getToken(st).loc
    IN  Then(nextWith(st, "Fn"), LAMBDA f :
        Then(expect(f.s, "Identifier"), LAMBDA name :
        Then(parseParams(next(name.s)), LAMBDA params :
        Then(parseBlock(params.s), LAMBDA body :
        Ret(body.s, FunctionDecl(getToken(name.s).value, params.val, body.val, loc))))))

parseVariableDecl(st) ==
    LET loc == getToken(st).loc
    IN  Then(nextWith(st, "Var"), LAMBDA v :
        Then(expect(v.s, "Identifier"), LAMBDA name :
        Then(IF getKind(next(name.s)) = "Eq"
             THEN parseExpr(next(next(name.s)))
             ELSE Ret(next(name.s), Undefined), LAMBDA body :
        Then(nextWith(body.s, "SemiColon"), LAMBDA semi :
        Ret(semi.s, VariableDecl(getToken(name.s).value, body.val, loc))))))

\* thenLoc is read at cond.s, before the then block; elseLoc at thenSteps.s,
\* the else token, before next().
parseIf(st) ==
    LET loc == getToken(st).loc
    IN  Then(nextWith(st, "If"), LAMBDA i :
        Then(parseCond(i.s), LAMBDA cond :
        Then(parseBlock(cond.s), LAMBDA thenSteps :
        IF getKind(thenSteps.s) = "Else"
        THEN Then(parseBlock(next(thenSteps.s)), LAMBDA elseSteps :
             Ret(elseSteps.s,
                 If(cond.val, Block(thenSteps.val, getToken(cond.s).loc),
                    Block(elseSteps.val, getToken(thenSteps.s).loc), loc)))
        ELSE Ret(thenSteps.s,
                 If(cond.val, Block(thenSteps.val, getToken(cond.s).loc), Undefined,
                    loc)))))

parseWhile(st) ==
    LET loc == getToken(st).loc
    IN  IF getKind(st) = "While"
        THEN Then(nextWith(st, "While"), LAMBDA w :
             Then(parseCond(w.s), LAMBDA cond :
             Then(parseBlock(cond.s), LAMBDA body :
             Ret(body.s, While("while", cond.val, body.val, loc)))))
        ELSE Then(nextWith(st, "Do"), LAMBDA d :
             Then(parseBlock(d.s), LAMBDA body :
             Then(nextWith(body.s, "While"), LAMBDA w :
             Then(parseCond(w.s), LAMBDA cond :
             Ret(cond.s, While("do-while", cond.val, body.val, loc))))))

\* ------------------------------------------------------------ pratt parsing
\* The while (true) loop of parsePratt.
parsePrattLoop(st, left, minBp) ==
    LET infix == find("infix", getKind(st))
    IN  IF infix # Undefined
        THEN IF infix.lbp < minBp
             THEN Ret(st, left)
             ELSE Then(parseInfix(st, left, infix), LAMBDA r :
                  parsePrattLoop(r.s, r.val, minBp))
        ELSE Ret(st, left)

parsePratt(st, minBp) ==
    LET prefix == find("prefix", getKind(st))
    IN  Then(IF prefix # Undefined THEN parsePrefix(st, prefix) ELSE parseAtom(st),
             LAMBDA left :
        parsePrattLoop(left.s, left.val, minBp))

parsePrefixLoose(st, info) ==
    LET loc == getToken(st).loc
    IN  Then(parsePratt(next(st), 0), LAMBDA right :
        Ret(right.s, Unary(UnaryModeOf(info.token), right.val, loc)))

parsePrefix(st, info) ==
    LET loc == getToken(st).loc
    IN  Then(parsePratt(next(st), info.bp), LAMBDA right :
        Ret(right.s, Unary(UnaryModeOf(info.token), right.val, loc)))

parseInfixRightAssoc(st, left, info) ==
    LET loc == getToken(st).loc
    IN  Then(parsePratt(next(st), info.lbp), LAMBDA right :
        Ret(right.s, Binary(BinaryModeOf(info.token), left, right.val, loc)))

parseInfix(st, left, info) ==
    LET loc == getToken(st).loc
    IN  Then(parsePratt(next(st), info.rbp), LAMBDA right :
        Ret(right.s, Binary(BinaryModeOf(info.token), left, right.val, loc)))

parseAtomUncheckedClose(st) ==
    LET loc == getToken(st).loc
        kind == getKind(st)
    IN  CASE kind = "NumberLiteral" ->
                Ret(next(st), NumberLiteral(Number(getToken(st).value), loc))
          [] kind = "Identifier" ->
                Ret(next(st), Reference(getToken(st).value, loc))
          [] kind = "If" -> parseIf(st)
          [] kind = "OpenParen" ->
                Then(parseExpr(next(st)), LAMBDA expr : Ret(next(expr.s), expr.val))
          [] OTHER -> Fail(st, Error(<<"unexpected token", kind>>))

parseAtom(st) ==
    LET loc == getToken(st).loc
        kind == getKind(st)
    IN  CASE kind = "NumberLiteral" ->
                Ret(next(st), NumberLiteral(Number(getToken(st).value), loc))
          [] kind = "Identifier" ->
                Ret(next(st), Reference(getToken(st).value, loc))
          [] kind = "If" -> parseIf(st)
          [] kind = "OpenParen" ->
                Then(parseExpr(next(st)), LAMBDA expr :
                Then(nextWith(expr.s, "CloseParen"), LAMBDA c :
                Ret(c.s, expr.val)))
          [] OTHER -> Fail(st, Error(<<"unexpected token", kind>>))

\* ------------------------------------------------------- ParseSpec: parse()
\* parse() on a token list; the Scanner is the ITokenStream over the tokens.
ProgLexemes ==
    {Lex("Fn"), Lex("Var"), Id("x"), Lex("OpenParen"), Lex("CloseParen"),
     Lex("OpenBrace"), Lex("CloseBrace"), Lex("SemiColon"), Lex("Eq"), Num(<<"1">>)}

\* fn add(a, b) { var x = a + b; }
FnAddProgram ==
    <<Lex("Fn"), Id("add"), Lex("OpenParen"), Id("a"), Lex("Comma"), Id("b"),
      Lex("CloseParen"), Lex("OpenBrace"), Lex("Var"), Id("x"), Lex("Eq"), Id("a"),
      Lex("Plus"), Id("b"), Lex("SemiColon"), Lex("CloseBrace")>>

\* fn f(a, b) { }
FnEmptyProgram ==
    <<Lex("Fn"), Id("f"), Lex("OpenParen"), Id("a"), Lex("Comma"), Id("b"),
      Lex("CloseParen"), Lex("OpenBrace"), Lex("CloseBrace")>>

\* var x = 1 + 2; var y;
TwoVarsProgram ==
    <<Lex("Var"), Id("x"), Lex("Eq"), Num(<<"1">>), Lex("Plus"), Num(<<"2">>),
      Lex("SemiColon"), Lex("Var"), Id("y"), Lex("SemiColon")>>

\* fn f() { } var x = a * 2; fn g(a) { }
MixedProgram ==
    <<Lex("Fn"), Id("f"), Lex("OpenParen"), Lex("CloseParen"), Lex("OpenBrace"),
      Lex("CloseBrace"), Lex("Var"), Id("x"), Lex("Eq"), Id("a"), Lex("Asterisk"),
      Num(<<"2">>), Lex("SemiColon"), Lex("Fn"), Id("g"), Lex("OpenParen"), Id("a"),
      Lex("CloseParen"), Lex("OpenBrace"), Lex("CloseBrace")>>

\* fn f() { x }
FnStepProgram ==
    <<Lex("Fn"), Id("f"), Lex("OpenParen"), Lex("CloseParen"), Lex("OpenBrace"),
      Id("x"), Lex("CloseBrace")>>

\* var x; x
TrailingProgram == <<Lex("Var"), Id("x"), Lex("SemiColon"), Id("x")>>

ExamplePrograms ==
    {FnAddProgram, FnEmptyProgram, TwoVarsProgram, MixedProgram, FnStepProgram,
     TrailingProgram}

Programs == SeqsUpTo(ProgLexemes, MaxProgLen) \cup ExamplePrograms

ParseInit ==
    /\ \E lexemes \in Programs : s = TokenStream(Tokens(lexemes))
    /\ pc = "loop"
    /\ Idle

\* while (s.getKind() != TokenKind.EOF): enter the body.
ParseLoop ==
    /\ pc = "loop"
    /\ getKind(s) # "EOF"
    /\ pc' = "switch"
    /\ UNCHANGED <<s, op, ret, thrown, decls, result>>

\* The loop ends: return new Unit(decls, { line: 1, column: 1 }).
ParseReturn ==
    /\ pc = "loop"
    /\ ~(getKind(s) # "EOF")
    /\ result' = Unit(decls, Loc(1, 1))
    /\ pc' = "done"
    /\ UNCHANGED <<s, op, ret, thrown, decls>>

\* A declaration parsed by the switch: pushed, or its error leaves parse().
ParseDecl(r) ==
    /\ s' = r.s
    /\ IF r.err # NoErr
       THEN /\ thrown' = r.err
            /\ pc' = "thrown"
            /\ UNCHANGED decls
       ELSE /\ decls' = Append(decls, r.val)
            /\ pc' = "loop"
            /\ UNCHANGED thrown
    /\ UNCHANGED <<op, ret, result>>

\* case TokenKind.Fn
ParseCaseFn ==
    /\ pc = "switch"
    /\ getKind(s) = "Fn"
    /\ ParseDecl(parseFunctionDecl(s))

\* case TokenKind.Var
ParseCaseVar ==
    /\ pc = "switch"
    /\ getKind(s) = "Var"
    /\ ParseDecl(parseVariableDecl(s))

\* No case matches: the switch does nothing and the loop tests again.
ParseCaseNone ==
    /\ pc = "switch"
    /\ getKind(s) \notin {"Fn", "Var"}
    /\ pc' = "loop"
    /\ UNCHANGED <<s, op, ret, thrown, decls, result>>

ParseNext ==
    \/ ParseLoop
    \/ ParseReturn
    \/ ParseCaseFn
    \/ ParseCaseVar
    \/ ParseCaseNone

ParseSpec == ParseInit /\ [][ParseNext]_vars

\* ---------------------------------------------------- ExprSpec: parseExpr()
InfixTokens == {operators[i].token : i \in {j \in DOMAIN operators : operators[j].kind = "infix"}}
PrefixTokens == {operators[i].token : i \in {j \in DOMAIN operators : operators[j].kind = "prefix"}}

OperandTriples ==
    {<<Id("a"), Id("b"), Id("c")>>,
     <<Num(<<"1">>), Num(<<"2">>), Num(<<"3">>)>>,
     <<Id("a"), Num(<<"1", "2">>), Id("a")>>}

\* a OP1 b OP2 c
Chain(t, o1, o2) == <<t[1], Lex(o1), t[2], Lex(o2), t[3]>>
\* P a OP b
PrefixForm(p, t, o) == <<Lex(p), t[1], Lex(o), t[2]>>
\* (a OP1 b) OP2 c
ParenLeft(t, o1, o2) ==
    <<Lex("OpenParen"), t[1], Lex(o1), t[2], Lex("CloseParen"), Lex(o2), t[3]>>
\* a OP1 (b OP2 c)
ParenRight(t, o1, o2) ==
    <<t[1], Lex(o1), Lex("OpenParen"), t[2], Lex(o2), t[3], Lex("CloseParen")>>
\* (a OP b, followed by something that is no close parenthesis
UnclosedTails == {<<>>, <<Lex("SemiColon")>>, <<Lex("CloseBrace")>>, <<Id("d")>>}
Unclosed(t, o, tail) == <<Lex("OpenParen"), t[1], Lex(o), t[2]>> \o tail

\* if (a < b) { } else { }
IfElseExpr ==
    <<Lex("If"), Lex("OpenParen"), Id("a"), Lex("Lt"), Id("b"), Lex("CloseParen"),
      Lex("OpenBrace"), Lex("CloseBrace"), Lex("Else"), Lex("OpenBrace"),
      Lex("CloseBrace")>>
\* if (a) { }
IfExpr ==
    <<Lex("If"), Lex("OpenParen"), Id("a"), Lex("CloseParen"), Lex("OpenBrace"),
      Lex("CloseBrace")>>
\* if (a) { } + 1
IfPlusExpr == IfExpr \o <<Lex("Plus"), Num(<<"1">>)>>
\* if (a) { b }
IfStepExpr ==
    <<Lex("If"), Lex("OpenParen"), Id("a"), Lex("CloseParen"), Lex("OpenBrace"),
      Id("b"), Lex("CloseBrace")>>

ExprLexemes ==
    {Id("a"), Num(<<"1">>), Lex("Plus"), Lex("Asterisk"), Lex("Not"), Lex("OpenParen"),
     Lex("CloseParen"), Lex("Lt")}

ExprInputs ==
    {Chain(t, o1, o2) : t \in OperandTriples, o1 \in InfixTokens, o2 \in InfixTokens}
    \cup {ParenLeft(t[1], t[2], t[3]) : t \in OperandTriples \X InfixTokens \X InfixTokens}
    \cup {ParenRight(t[1], t[2], t[3]) : t \in OperandTriples \X InfixTokens \X InfixTokens}
    \cup {PrefixForm(t[1], t[2], t[3]) : t \in PrefixTokens \X OperandTriples \X InfixTokens}
    \cup {Unclosed(t[1], t[2], t[3]) : t \in OperandTriples \X InfixTokens \X UnclosedTails}
    \cup {IfElseExpr, IfExpr, IfPlusExpr, IfStepExpr}
    \cup SeqsUpTo(ExprLexemes, MaxExprLen)

ExprInit ==
    /\ \E lexemes \in ExprInputs : s = TokenStream(Tokens(lexemes))
    /\ pc = "expr"
    /\ Idle

\* parseExpr(s) returns an expression, or raises.
ParseExprCall ==
    /\ pc = "expr"
    /\ LET r == parseExpr(s)
       IN  /\ s' = r.s
           /\ result' = r.val
           /\ thrown' = r.err
           /\ pc' = IF r.err # NoErr THEN "thrown" ELSE "done"
    /\ UNCHANGED <<op, ret, decls>>

ExprNext == ParseExprCall

ExprSpec == ExprInit /\ [][ExprNext]_vars

\* ------------------------------------------------------------------- claims
Source == s.source
Finished == pc \in {"done", "thrown"}

\* The tree without its locations.
RECURSIVE Shape(_)
Shape(n) ==
    CASE n.kind = "Reference" -> <<"Reference", n.name>>
      [] n.kind = "NumberLiteral" -> <<"NumberLiteral", n.value>>
      [] n.kind = "Unary" -> <<"Unary", n.mode, Shape(n.expr)>>
      [] n.kind = "Binary" -> <<"Binary", n.mode, Shape(n.left), Shape(n.right)>>
      [] n.kind = "If" -> <<"If", Shape(n.cond), n.elseBlock # Undefined>>
      [] OTHER -> <<n.kind>>

DecimalValue(text) ==
    CASE text = <<"1">> -> 1
      [] text = <<"2">> -> 2
      [] text = <<"3">> -> 3
      [] text = <<"1", "2">> -> 12
      [] OTHER -> -1

IsOperand(tok) == tok.kind \in {"Identifier", "NumberLiteral"}
OperandShape(tok) ==
    IF tok.kind = "Identifier"
    THEN <<"Reference", tok.value>>
    ELSE <<"NumberLiteral", DecimalValue(tok.value)>>
BinaryShape(token, l, r) == <<"Binary", BinaryModeOf(token), l, r>>

\* The tiers of the infix operators, the tightest highest.
Tier(token) ==
    CASE token \in {"Asterisk", "Slash", "Percent"} -> 6
      [] token \in {"Plus", "Minus"} -> 5
      [] token \in {"Lt", "Lte", "Gt", "Gte"} -> 4
      [] token \in {"Eq2", "NotEq"} -> 3
      [] token = "And2" -> 2
      [] token = "Or2" -> 1
      [] OTHER -> 0
IsInfix(tok) == Tier(tok.kind) > 0
IsPrefix(tok) == tok.kind \in {"Not", "Plus", "Minus"}

\* The kinds of the tokens of Source match the pattern, "x" standing for an
\* operand, "o" for an infix operator and "p" for a prefix operator.
Matches(pattern) ==
    /\ Len(Source) = Len(pattern)
    /\ \A i \in 1..Len(pattern) :
          CASE pattern[i] = "x" -> IsOperand(Source[i])
            [] pattern[i] = "o" -> IsInfix(Source[i])
            [] pattern[i] = "p" -> IsPrefix(Source[i])
            [] OTHER -> Source[i].kind = pattern[i]

\* Valid programs, and the declaration each top-level keyword of theirs starts.
ValidPrograms ==
    {FnAddProgram, FnEmptyProgram, TwoVarsProgram, MixedProgram,
     <<Lex("Var"), Id("x"), Lex("SemiColon")>>}
TopLevelKeywords(p) ==
    CASE p = FnAddProgram -> <<"FunctionDecl">>
      [] p = FnEmptyProgram -> <<"FunctionDecl">>
      [] p = TwoVarsProgram -> <<"VariableDecl", "VariableDecl">>
      [] p = MixedProgram -> <<"FunctionDecl", "VariableDecl", "FunctionDecl">>
      [] OTHER -> <<"VariableDecl">>
\* C1: every syntactically valid program parses to a Unit with one declaration
\* per top-level fn/var keyword, in source order; function bodies may hold steps.
C1_ValidProgramParses ==
    \A p \in ValidPrograms :
        (Finished /\ Source = Tokens(p)) =>
            /\ pc = "done"
            /\ [i \in 1..Len(result.decls) |-> result.decls[i].kind] = TopLevelKeywords(p)

\* C2: a top-level token that is neither fn nor var is skipped over: the
\* top-level loop moves the cursor past it.
C2_TopLevelTokenSkipped ==
    [][(pc = "switch" /\ getKind(s) \notin {"Fn", "Var"}) => s'.index > s.index]_vars

\* C3: a OP1 b OP2 c groups to the left when OP1's tier is at least OP2's and
\* to the right when OP1's tier is strictly lower.
C3_PrecedenceGrouping ==
    (Finished /\ Matches(<<"x", "o", "x", "o", "x">>)) =>
        /\ pc = "done"
        /\ LET a == OperandShape(Source[1])
               b == OperandShape(Source[3])
               c == OperandShape(Source[5])
               op1 == Source[2].kind
               op2 == Source[4].kind
           IN  Shape(result) =
                   IF Tier(op1) >= Tier(op2)
                   THEN BinaryShape(op2, BinaryShape(op1, a, b), c)
                   ELSE BinaryShape(op1, a, BinaryShape(op2, b, c))
C3_Witness ==
    /\ pc = "done"
    /\ Source = Tokens(Chain(<<Id("a"), Id("b"), Id("c")>>, "Minus", "Asterisk"))
    /\ result.mode = "sub"
    /\ result.right.mode = "mul"

\* C4: a prefix operator binds tighter than every infix operator: P a OP b is
\* Binary(OP, Unary(P, a), b).
C4_PrefixBindsTighter ==
    (Finished /\ Matches(<<"p", "x", "o", "x">>)) =>
        /\ pc = "done"
        /\ Shape(result) =
               BinaryShape(Source[3].kind,
                           <<"Unary", UnaryModeOf(Source[1].kind), OperandShape(Source[2])>>,
                           OperandShape(Source[4]))
C4_Witness ==
    /\ pc = "done"
    /\ Source = Tokens(PrefixForm("Minus", <<Id("a"), Id("b"), Id("c")>>, "Asterisk"))
    /\ result.kind = "Binary"
    /\ result.left.kind = "Unary"

\* ( a OP b followed by the end or by a token that neither continues the
\* inner expression nor closes the parenthesis.
UnclosedParen ==
    /\ Len(Source) >= 4
    /\ Source[1].kind = "OpenParen"
    /\ IsOperand(Source[2])
    /\ IsInfix(Source[3])
    /\ IsOperand(Source[4])
    /\ Len(Source) > 4 => ~IsInfix(Source[5]) /\ Source[5].kind # "CloseParen"
\* C5: parentheses override precedence and leave no node: (a OP1 b) OP2 c is
\* Binary(OP2, Binary(OP1, a, b), c) and a OP1 (b OP2 c) is
\* Binary(OP1, a, Binary(OP2, b, c)) whatever the tiers; an inner expression
\* that no close parenthesis follows is a fatal error.
C5_ParenthesesGroup ==
    /\ (Finished /\ Matches(<<"OpenParen", "x", "o", "x", "CloseParen", "o", "x">>)) =>
          /\ pc = "done"
          /\ Shape(result) =
                 BinaryShape(Source[6].kind,
                             BinaryShape(Source[3].kind, OperandShape(Source[2]),
                                         OperandShape(Source[4])),
                             OperandShape(Source[7]))
    /\ (Finished /\ Matches(<<"x", "o", "OpenParen", "x", "o", "x", "CloseParen">>)) =>
          /\ pc = "done"
          /\ Shape(result) =
                 BinaryShape(Source[2].kind, OperandShape(Source[1]),
                             BinaryShape(Source[5].kind, OperandShape(Source[4]),
                                         OperandShape(Source[6])))
    /\ (Finished /\ UnclosedParen) => pc = "thrown" /\ thrown # NoErr
C5_Witness ==
    /\ pc = "done"
    /\ Source = Tokens(ParenLeft(<<Id("a"), Id("b"), Id("c")>>, "Plus", "Asterisk"))
    /\ result.mode = "mul"
    /\ result.left.mode = "add"

\* C6: every failure of a parse is a SyntaxError that carries the offending
\* token's kind and its location.
C6_EveryFailureIsLocatedSyntaxError ==
    pc = "thrown" =>
        /\ thrown.name = "SyntaxError"
        /\ thrown.msg = <<"unexpected token", getKind(s)>>
        /\ thrown.hasLoc
        /\ thrown.loc = getToken(s).loc

\* C7: nextWith(kind) is expect(kind) then next(): on a mismatch it raises and
\* leaves the cursor and the current token as they were; on a match it raises
\* nothing and moves the cursor forward by one, or leaves it at end of stream.
C7_NextWithChecksBeforeAdvancing ==
    [][op'.name = "nextWith" =>
          IF getKind(s) # op'.kind
          THEN /\ thrown' # NoErr
               /\ thrown' = expect(s, op'.kind).err
               /\ s'.index = s.index
               /\ getToken(s') = getToken(s)
          ELSE /\ thrown' = NoErr
               /\ s' = next(s)
               /\ s'.index = IF s.index < Len(s.source) THEN s.index + 1 ELSE s.index]_vars
C7_Witness ==
    /\ op.name = "nextWith"
    /\ thrown # NoErr
    /\ s.index = 1
    /\ Len(s.source) = 3

\* The state part of the cursor invariant.
C8_CursorInRange ==
    /\ 0 <= s.index
    /\ s.index <= Len(s.source)
    /\ getToken(s) = IF s.index < Len(s.source) THEN s.source[s.index + 1] ELSE EOFToken
\* C8: the cursor stays within 0..length and never decreases; next() at end of
\* stream changes nothing and raises nothing; the current token is the token at
\* the cursor, or the end-of-stream token at the end.
C8_Cursor ==
    /\ []C8_CursorInRange
    /\ [][/\ s'.index >= s.index
          /\ s'.source = s.source
          /\ (op'.name = "next" /\ s.index >= Len(s.source)) => (s' = s /\ thrown' = NoErr)]_vars
C8_Witness ==
    /\ op.name = "next"
    /\ s.index = Len(s.source)
    /\ Len(s.source) = 2

\* C9: lookahead(k) leaves the cursor and the current token alone, returns the
\* token at cursor + k, or the end-of-stream token when that is past the end,
\* and returns the same token when called again with the same k.
C9_LookaheadIsPure ==
    [][op'.name = "lookahead" =>
          /\ s' = s
          /\ getToken(s') = getToken(s)
          /\ thrown' = NoErr
          /\ ret' = IF s.index + op'.offset < Len(s.source)
                    THEN s.source[s.index + op'.offset + 1]
                    ELSE EOFToken
          /\ (op = op' => ret' = ret)]_vars
C9_Witness ==
    /\ op.name = "lookahead"
    /\ op.offset = 1
    /\ s.index = 1
    /\ Len(s.source) = 3
    /\ ret = s.source[3]

\* The number of tokens a node covers, and whether a node that starts at
\* column start and every node below it carry the location of their first token.
RECURSIVE Size(_)
Size(n) ==
    CASE n.kind \in {"Reference", "NumberLiteral"} -> 1
      [] n.kind = "Unary" -> 1 + Size(n.expr)
      [] n.kind = "Binary" -> Size(n.left) + 1 + Size(n.right)
      [] n.kind = "If" ->
            1 + (2 + Size(n.cond)) + 2 + (IF n.elseBlock = Undefined THEN 0 ELSE 3)
RECURSIVE LocsOK(_, _)
LocsOK(n, start) ==
    /\ n.loc = Loc(1, start)
    /\ CASE n.kind \in {"Reference", "NumberLiteral"} -> TRUE
         [] n.kind = "Unary" -> LocsOK(n.expr, start + 1)
         [] n.kind = "Binary" ->
               LocsOK(n.left, start) /\ LocsOK(n.right, start + Size(n.left) + 1)
         [] n.kind = "If" ->
               /\ LocsOK(n.cond, start + 2)
               /\ n.thenBlock.loc = Loc(1, start + Size(n.cond) + 3)
               /\ n.elseBlock # Undefined =>
                     n.elseBlock.loc = Loc(1, start + Size(n.cond) + 6)
NoGrouping ==
    \A i \in 1..Len(Source) :
        Source[i].kind = "OpenParen" => (i > 1 /\ Source[i - 1].kind = "If")
\* C10: every node carries the location of the first token of the source it
\* covers. Checked on expressions without grouping parentheses, where the
\* tokens a node covers are counted from the tree.
C10_NodesCarryFirstTokenLocation ==
    (pc = "done" /\ NoGrouping) => LocsOK(result, 1)

=============================================================================
